---------------------------- MODULE Spec2Model ----------------------------
(***************************************************************************)
(* State-machine model of the light-curve backend:                         *)
(*   routers/graph.py    _parse_separators, detect_separators, csv_to_graph *)
(*   routers/predict.py  model, FEATURE_COLS, predict_from_csv             *)
(*                                                                         *)
(* Time values are integers.  A string is a sequence of one-character      *)
(* strings.  An Optional value is a sequence of length 0 (None) or 1.      *)
(***************************************************************************)
EXTENDS Integers, Sequences, FiniteSets, TLC

\* ------------------------------------------------------------- bounds
MaxN == 3
MaxT == 4
MaxThr == 2
MaxText == 4
NumReqs == 2
NumFeatures == 2

VARIABLES
    \* detect_separators applied to one input and to a reordering of it
    times, gap_threshold, shuffled, gaps, gaps_shuffled, dstep,
    \* _parse_separators applied to one input
    text, nums, pstep,
    \* the server: per-request handler frames and the process-wide state
    pc, frame, files, creator, foreign, rc_style, figures, model

detectVars == <<times, gap_threshold, shuffled, gaps, gaps_shuffled, dstep>>
parseVars == <<text, nums, pstep>>
serverVars == <<pc, frame, files, creator, foreign, rc_style, figures, model>>
vars == <<detectVars, parseVars, serverVars>>

\* ------------------------------------------------------------ helpers
SeqsUpTo(S, n) == UNION {[1..k -> S] : k \in 0..n}

Reorderings(s) ==
    {[i \in 1..Len(s) |-> s[f[i]]] : f \in Permutations(1..Len(s))}

\* ================================================= detect_separators
RECURSIVE insert_sorted(_, _)
insert_sorted(x, s) ==
    IF s = <<>> THEN <<x>>
    ELSE IF x <= Head(s) THEN <<x>> \o s
    ELSE <<Head(s)>> \o insert_sorted(x, Tail(s))

unsorted_values(s) == s

\* Series.sort_values(): ascending order of the values
RECURSIVE sort_values(_)
sort_values(s) ==
    IF s = <<>> THEN <<>> ELSE insert_sorted(Head(s), sort_values(Tail(s)))

\* np.diff(t): diffs[i] = t[i+1] - t[i]
np_diff(t) == [i \in 1..(Len(t) - 1) |-> t[i + 1] - t[i]]

exceeds_or_equals(d, threshold) == d >= threshold

\* the comparison of `diffs > gap_threshold`
exceeds(d, threshold) == d > threshold

\* a[mask]: the elements of a at the positions where mask is TRUE
RECURSIVE bool_index(_, _)
bool_index(a, mask) ==
    IF a = <<>> THEN <<>>
    ELSE (IF Head(mask) THEN <<Head(a)>> ELSE <<>>)
         \o bool_index(Tail(a), Tail(mask))

detect_separators_block_end(time, threshold) ==
    LET t == sort_values(time) IN
    IF Len(t) < 2 THEN <<>>
    ELSE LET diffs == np_diff(t)
             mask == [i \in 1..Len(diffs) |-> exceeds(diffs[i], threshold)]
         IN  bool_index(SubSeq(t, 1, Len(t) - 1), mask)

detect_separators(time, threshold) ==
    LET t == sort_values(time) IN
    IF Len(t) < 2 THEN <<>>
    ELSE LET diffs == np_diff(t)
             mask == [i \in 1..Len(diffs) |-> exceeds(diffs[i], threshold)]
         IN  bool_index(Tail(t), mask)

\* ---- the detector on bounded inputs
DetectInit ==
    /\ times \in SeqsUpTo(0..MaxT, MaxN)
    /\ gap_threshold \in 1..MaxThr
    /\ shuffled = <<>>
    /\ gaps = <<>>
    /\ gaps_shuffled = <<>>
    /\ dstep = "ready"

Detect ==
    /\ dstep = "ready"
    /\ gaps' = detect_separators(times, gap_threshold)
    /\ dstep' = "detected"
    /\ UNCHANGED <<times, gap_threshold, shuffled, gaps_shuffled>>
    /\ UNCHANGED <<parseVars, serverVars>>

DetectShuffled ==
    /\ dstep = "detected"
    /\ \E p \in Reorderings(times) :
         /\ shuffled' = p
         /\ gaps_shuffled' = detect_separators(p, gap_threshold)
    /\ dstep' = "both"
    /\ UNCHANGED <<times, gap_threshold, gaps>>
    /\ UNCHANGED <<parseVars, serverVars>>

DetectIdle ==
    /\ times = <<>> /\ gap_threshold = 1 /\ shuffled = <<>>
    /\ gaps = <<>> /\ gaps_shuffled = <<>> /\ dstep = "off"

\* ================================================= _parse_separators
DigitChars == <<"0", "1", "2", "3", "4", "5", "6", "7", "8", "9">>
Digits == {DigitChars[i] : i \in 1..Len(DigitChars)}
Signs == {"+", "-"}
Alphabet == {"0", "7", "-", "+", ".", ",", " ", "|", "x"}

digit_value(c) == (CHOOSE i \in 1..Len(DigitChars) : DigitChars[i] = c) - 1

\* a float as the decimal num / 10^exp in lowest form (float("-0") = 0.0)
RECURSIVE normal_float(_, _)
normal_float(num, exp) ==
    IF num = 0 THEN [num |-> 0, exp |-> 0]
    ELSE IF exp > 0 /\ num % 10 = 0 THEN normal_float(num \div 10, exp - 1)
    ELSE [num |-> num, exp |-> exp]

\* s.replace(",", " ")
str_replace_comma(s) == [i \in 1..Len(s) |-> IF s[i] = "," THEN " " ELSE s[i]]

\* the first position >= i of s that holds no digit (Len(s) + 1 if none)
RECURSIVE digits_end(_, _)
digits_end(s, i) ==
    IF i <= Len(s) /\ s[i] \in Digits THEN digits_end(s, i + 1) ELSE i

match_unsigned_at(s, i) ==
    LET k == digits_end(s, i) IN
    IF k = i THEN 0
    ELSE IF k + 1 <= Len(s) /\ s[k] = "." /\ s[k + 1] \in Digits
         THEN digits_end(s, k + 1)
         ELSE k

\* re.match of [+-]?\d+(?:\.\d+)? at position i: the position after the
\* match, 0 when there is none
match_number_at(s, i) ==
    LET j == IF s[i] \in Signs THEN i + 1 ELSE i
        k == digits_end(s, j)
    IN  IF k = j THEN 0
        ELSE IF k + 1 <= Len(s) /\ s[k] = "." /\ s[k + 1] \in Digits
             THEN digits_end(s, k + 1)
             ELSE k

\* re.findall: the non-overlapping matches, scanning left to right
RECURSIVE re_findall(_, _)
re_findall(s, i) ==
    IF i > Len(s) THEN <<>>
    ELSE LET e == match_number_at(s, i) IN
         IF e = 0 THEN re_findall(s, i + 1)
         ELSE <<SubSeq(s, i, e - 1)>> \o re_findall(s, e)

\* the digits of d read as a base-10 numeral, most significant first
RECURSIVE numeral(_, _)
numeral(d, acc) ==
    IF d = <<>> THEN acc ELSE numeral(Tail(d), 10 * acc + digit_value(Head(d)))

\* float(x): <<value>>, or <<>> for ValueError
float_of(x) ==
    LET neg == x # <<>> /\ Head(x) = "-"
        body == IF x # <<>> /\ Head(x) \in Signs THEN Tail(x) ELSE x
        dots == {i \in 1..Len(body) : body[i] = "."}
        ok == /\ body # <<>>
              /\ \A i \in 1..Len(body) : body[i] \in Digits \cup {"."}
              /\ Cardinality(dots) <= 1
              /\ \E i \in 1..Len(body) : body[i] \in Digits
    IN  IF ~ok THEN <<>>
        ELSE LET d == SelectSeq(body, LAMBDA c : c \in Digits)
                 e == IF dots = {} THEN 0
                      ELSE Len(body) - (CHOOSE i \in dots : TRUE)
                 n == numeral(d, 0)
             IN  <<normal_float(IF neg THEN 0 - n ELSE n, e)>>

\* _parse_separators(s), s an Optional string
_parse_separators(s) ==
    IF s = <<>> \/ s[1] = <<>> THEN <<>>
    ELSE LET found == re_findall(str_replace_comma(s[1]), 1)
             vals == [i \in 1..Len(found) |-> float_of(found[i])]
         IN  IF \E i \in 1..Len(vals) : vals[i] = <<>> THEN <<>>
             ELSE [i \in 1..Len(vals) |-> vals[i][1]]

\* ---- the parser on bounded inputs
ParseInit ==
    /\ text \in {<<>>} \cup {<<s>> : s \in SeqsUpTo(Alphabet, MaxText)}
    /\ nums = <<>>
    /\ pstep = "ready"

Parse ==
    /\ pstep = "ready"
    /\ nums' = _parse_separators(text)
    /\ pstep' = "parsed"
    /\ UNCHANGED text
    /\ UNCHANGED <<detectVars, serverVars>>

ParseIdle == text = <<>> /\ nums = <<>> /\ pstep = "off"

\* ======================================================= the server
Reqs == 1..NumReqs
\* the names tempfile can give out; a name is free again once its file is gone
Names == 1..NumReqs

FEATURE_COLS ==
    <<"koi_score", "koi_fpflag_nt", "koi_fpflag_ss", "koi_fpflag_co",
      "koi_fpflag_ec", "koi_period", "koi_impact", "koi_duration",
      "koi_depth", "koi_prad", "koi_teq", "koi_insol", "koi_model_snr",
      "koi_steff", "koi_slogg", "koi_srad">>

\* the pipeline joblib.load returns: whether it has the 'imputer' step, and
\* that step's feature_names_in_ (the first NumFeatures of FEATURE_COLS)
Models ==
    {[imputer |-> b, feature_names |-> SubSeq(FEATURE_COLS, 1, NumFeatures)] :
        b \in BOOLEAN}

CsvName == <<"a", ".", "c", "s", "v">>
TxtName == <<"a", ".", "t", "x", "t">>
Filenames == {CsvName, TxtName}
DotCsv == <<".", "c", "s", "v">>

\* an uploaded file: whether pd.read_csv parses it, its columns, its time column
GraphUploads ==
    {[parses |-> FALSE, columns |-> {}, time |-> <<>>],
     [parses |-> TRUE, columns |-> {"flux"}, time |-> <<>>],
     [parses |-> TRUE, columns |-> {"time", "flux"}, time |-> <<30, 0, 0>>]}

PredictUploads ==
    {[parses |-> FALSE, columns |-> {}, time |-> <<>>]}
    \cup {[parses |-> TRUE, columns |-> c, time |-> <<>>] :
            c \in SUBSET ({FEATURE_COLS[i] : i \in 1..NumFeatures} \cup {"kepid"})}

\* the `separators` form field: absent, or a string
SepTexts == {<<>>, <<<<"x">>>>, <<<<"7", ",", "0">>>>}
\* the `auto_gap_threshold` form field: absent, or a float
Thresholds == {<<>>, <<0 - 1>>}
Colors == {"black", "nocolor"}
\* the form fields of a graph request that the handler reads
Forms ==
    [separators : SepTexts, sep_color : Colors, auto_gap_threshold : Thresholds]

\* matplotlib accepts the colour name
color_like(c) == c = "black"

\* str.endswith
endswith(s, suffix) ==
    /\ Len(s) >= Len(suffix)
    /\ SubSeq(s, Len(s) - Len(suffix) + 1, Len(s)) = suffix

\* Form(20.0): the field's value, 20.0 when the request has none
form_default(field, default) == IF field = <<>> THEN default ELSE field[1]

NewFrame ==
    [kind |-> "none", filename |-> <<>>, read |-> FALSE, loaded |-> FALSE,
     columns |-> {}, time |-> <<>>, error |-> "",
     parse_arg |-> <<>>, parsed |-> <<>>, detect_arg |-> <<>>, xs |-> <<>>,
     source |-> "none", missing |-> <<>>, predicted |-> FALSE, tmp_path |-> 0,
     styled |-> FALSE, fig_open |-> FALSE, raised |-> "none", status |-> 0,
     detail |-> <<>>, background |-> FALSE, closed |-> FALSE]

\* raise HTTPException(status_code, detail)
raise_http(f, status_code, detail) ==
    [f EXCEPT !.raised = "HTTPException", !.status = status_code,
              !.detail = detail, !.error = "HTTPException"]

\* any other exception, with its message
raise_other(f, message) ==
    [f EXCEPT !.raised = "Exception", !.detail = <<message>>,
              !.error = message]

except_all_as_500(f, prefix) ==
    IF f.raised # "none"
    THEN [f EXCEPT !.raised = "HTTPException", !.status = 500,
                   !.detail = <<prefix>> \o f.detail]
    ELSE f

\* except HTTPException: raise / except Exception as e: raise HTTPException(500)
except_clauses(f, prefix) ==
    IF f.raised = "Exception"
    THEN [f EXCEPT !.raised = "HTTPException", !.status = 500,
                   !.detail = <<prefix>> \o f.detail]
    ELSE f

\* finally: file.file.close()
finally_close(f) == [f EXCEPT !.closed = TRUE]

choose_separators_detect_first(parsed, df_time, threshold) ==
    LET found == detect_separators(df_time, threshold) IN
    IF found # <<>>
    THEN [xs |-> found, source |-> "auto", detect_arg |-> <<threshold>>]
    ELSE [xs |-> parsed, source |-> "manual", detect_arg |-> <<threshold>>]

\* xs = _parse_separators(separators)
\* if not xs: xs = detect_separators(df, gap_threshold=float(auto_gap_threshold))
choose_separators(parsed, df_time, threshold) ==
    IF parsed # <<>>
    THEN [xs |-> parsed, source |-> "manual", detect_arg |-> <<>>]
    ELSE [xs |-> detect_separators(df_time, threshold), source |-> "auto",
          detect_arg |-> <<threshold>>]

\* ---- POST /graph/from_csv: the try block
graph_try(filename, upload, form, io, fresh) ==
    LET f0 == [NewFrame EXCEPT !.kind = "graph", !.filename = filename] IN
    IF ~endswith(filename, DotCsv)
    THEN raise_http(f0, 400, <<"El archivo debe ser un CSV.">>)
    ELSE
    LET f1 == [f0 EXCEPT !.read = TRUE] IN
    IF ~upload.parses THEN raise_other(f1, "read_csv")
    ELSE
    LET f2 == [f1 EXCEPT !.loaded = TRUE, !.columns = upload.columns] IN
    IF ~({"time", "flux"} \subseteq upload.columns)
    THEN raise_http(f2, 400,
             <<"El CSV debe contener las columnas 'time' y 'flux'.">>)
    ELSE
    LET df_time == sort_values(upload.time)
        parsed == _parse_separators(form.separators)
        f3 == [f2 EXCEPT !.time = df_time, !.parse_arg = <<form.separators>>,
                         !.parsed = parsed]
        threshold == form_default(form.auto_gap_threshold, 20)
        sel == choose_separators(parsed, df_time, threshold)
        f4 == [f3 EXCEPT !.xs = sel.xs, !.source = sel.source,
                         !.detect_arg = sel.detect_arg]
        \* NamedTemporaryFile(delete=False), plt.style.use, plt.figure
        f5 == [f4 EXCEPT !.tmp_path = fresh, !.styled = TRUE, !.fig_open = TRUE]
    IN  IF f5.xs # <<>> /\ ~color_like(form.sep_color)
        THEN raise_other(f5, "axvline")
        ELSE IF io = "savefig" THEN raise_other(f5, "savefig")
        ELSE [f5 EXCEPT !.fig_open = FALSE, !.status = 200,
                        !.background = TRUE]

csv_to_graph(filename, upload, form, io, fresh) ==
    finally_close(
        except_clauses(graph_try(filename, upload, form, io, fresh),
                       "Error al procesar el CSV: "))

missing_columns_first_only(feature_names, columns) ==
    SelectSeq(SubSeq(feature_names, 1, 1), LAMBDA c : c \notin columns)

\* [c for c in feature_names if c not in df.columns]
missing_columns(feature_names, columns) ==
    SelectSeq(feature_names, LAMBDA c : c \notin columns)

\* ---- POST /predict/from_csv: the try block
predict_try(filename, upload, m, predict_fault, io, fresh) ==
    LET f0 == [NewFrame EXCEPT !.kind = "predict", !.filename = filename] IN
    IF ~endswith(filename, DotCsv)
    THEN raise_http(f0, 400, <<"El archivo debe ser un CSV.">>)
    ELSE
    LET f1 == [f0 EXCEPT !.read = TRUE] IN
    IF ~upload.parses THEN raise_other(f1, "read_csv")
    ELSE
    LET f2 == [f1 EXCEPT !.loaded = TRUE, !.columns = upload.columns] IN
    IF ~m.imputer
    THEN raise_http(f2, 500,
             <<"El modelo cargado no contiene 'imputer' en el pipeline.">>)
    ELSE
    LET missing == missing_columns(m.feature_names, upload.columns)
        f3 == [f2 EXCEPT !.missing = missing]
    IN
    IF missing # <<>>
    THEN raise_http(f3, 400, <<"Faltan columnas requeridas: ">> \o missing)
    ELSE
    LET f4 == [f3 EXCEPT !.predicted = TRUE] IN
    IF predict_fault THEN raise_other(f4, "predict_proba")
    ELSE
    LET f5 == [f4 EXCEPT !.tmp_path = fresh] IN
    IF io = "to_csv" THEN raise_other(f5, "to_csv")
    ELSE [f5 EXCEPT !.status = 200, !.background = TRUE]

predict_from_csv(filename, upload, m, predict_fault, io, fresh) ==
    finally_close(
        except_clauses(
            predict_try(filename, upload, m, predict_fault, io, fresh),
            "Error en la prediccion: "))

\* tempfile's name for a new file: one that no existing file has
fresh_name ==
    CHOOSE n \in Names :
        n \notin files /\ \A k \in Names : k \notin files => n <= k

\* what a handler call leaves behind in the process and on disk
Handled(r, f) ==
    /\ frame' = [frame EXCEPT ![r] = f]
    /\ pc' = [pc EXCEPT ![r] = IF f.status = 200 THEN "sending" ELSE "done"]
    /\ files' = IF f.tmp_path # 0 THEN files \cup {f.tmp_path} ELSE files
    /\ creator' = IF f.tmp_path # 0 THEN [creator EXCEPT ![f.tmp_path] = r]
                  ELSE creator
    /\ rc_style' = IF f.styled THEN "grayscale" ELSE rc_style
    /\ figures' = IF f.fig_open THEN figures \cup {r} ELSE figures
    /\ UNCHANGED <<foreign, model>>

GraphRequest(r) ==
    /\ pc[r] = "idle"
    /\ \E filename \in Filenames, upload \in GraphUploads, form \in Forms,
          io \in {"ok", "savefig"} :
         Handled(r, csv_to_graph(filename, upload, form, io, fresh_name))
    /\ UNCHANGED <<detectVars, parseVars>>

PredictRequest(r) ==
    /\ pc[r] = "idle"
    /\ \E filename \in Filenames, upload \in PredictUploads,
          predict_fault \in BOOLEAN, io \in {"ok", "to_csv"} :
         Handled(r, predict_from_csv(filename, upload, model, predict_fault,
                                     io, fresh_name))
    /\ UNCHANGED <<detectVars, parseVars>>

\* FileResponse: the body is sent, then the BackgroundTask runs
\*   os.remove(p) if os.path.exists(p) else None
Respond(r) ==
    /\ pc[r] = "sending"
    /\ LET p == frame[r].tmp_path IN
         /\ files' = files \ {p}
         /\ foreign' = (foreign \/ (p \in files /\ creator[p] # r))
    /\ pc' = [pc EXCEPT ![r] = "done"]
    /\ UNCHANGED <<frame, creator, rc_style, figures, model>>
    /\ UNCHANGED <<detectVars, parseVars>>

ServerInit ==
    /\ pc = [r \in Reqs |-> "idle"]
    /\ frame = [r \in Reqs |-> NewFrame]
    /\ files = {}
    /\ creator = [n \in Names |-> 0]
    /\ foreign = FALSE
    /\ rc_style = "default"
    /\ figures = {}
    /\ model \in Models

ServerIdle ==
    /\ pc = [r \in Reqs |-> "off"]
    /\ frame = [r \in Reqs |-> NewFrame]
    /\ files = {}
    /\ creator = [n \in Names |-> 0]
    /\ foreign = FALSE
    /\ rc_style = "default"
    /\ figures = {}
    /\ model = [imputer |-> TRUE,
                feature_names |-> SubSeq(FEATURE_COLS, 1, NumFeatures)]

\* ---- the specifications
Init == ServerInit /\ DetectIdle /\ ParseIdle

Next ==
    \E r \in Reqs : GraphRequest(r) \/ PredictRequest(r) \/ Respond(r)

Spec == Init /\ [][Next]_vars

InitDetect == DetectInit /\ ParseIdle /\ ServerIdle

NextDetect == Detect \/ DetectShuffled

SpecDetect == InitDetect /\ [][NextDetect]_vars

InitParse == ParseInit /\ DetectIdle /\ ServerIdle

NextParse == Parse

SpecParse == InitParse /\ [][NextParse]_vars

\* ============================================================ claims
\* ---- what the claims speak of, stated apart from the operators above
Ascending(s) ==
    CHOOSE p \in Reorderings(s) : \A i \in 1..(Len(p) - 1) : p[i] <= p[i + 1]

GapIndices(s, threshold) ==
    {i \in 1..(Len(s) - 1) : s[i + 1] - s[i] > threshold}

NthOf(I, k) == CHOOSE i \in I : Cardinality({j \in I : j < i}) = k - 1

\* sorted[i+1] for each index i whose gap exceeds the threshold, by index
BlockStarts(time, threshold) ==
    LET s == Ascending(time)
        I == GapIndices(s, threshold)
    IN  [k \in 1..Cardinality(I) |-> s[NthOf(I, k) + 1]]

SepChars == {",", " ", "|", "x"}

RECURSIVE RunLen(_)
RunLen(s) ==
    IF s = <<>> \/ Head(s) \in SepChars THEN 0 ELSE 1 + RunLen(Tail(s))

\* the maximal runs of characters between separator characters
RECURSIVE Tokens(_)
Tokens(s) ==
    IF s = <<>> THEN <<>>
    ELSE IF Head(s) \in SepChars THEN Tokens(Tail(s))
    ELSE <<SubSeq(s, 1, RunLen(s))>> \o Tokens(SubSeq(s, RunLen(s) + 1, Len(s)))

AllDigits(x) == x # <<>> /\ \A i \in 1..Len(x) : x[i] \in Digits

Unsigned(tok) == IF tok # <<>> /\ Head(tok) \in Signs THEN Tail(tok) ELSE tok

\* an integer or decimal numeral with an optional sign
IsNumeral(tok) ==
    LET b == Unsigned(tok) IN
    \/ AllDigits(b)
    \/ \E d \in 2..(Len(b) - 1) :
         /\ b[d] = "."
         /\ AllDigits(SubSeq(b, 1, d - 1))
         /\ AllDigits(SubSeq(b, d + 1, Len(b)))

RECURSIVE Pow10(_)
Pow10(n) == IF n = 0 THEN 1 ELSE 10 * Pow10(n - 1)

RECURSIVE DigitSum(_)
DigitSum(ds) ==
    IF ds = <<>> THEN 0
    ELSE digit_value(Head(ds)) * Pow10(Len(ds) - 1) + DigitSum(Tail(ds))

\* the value of a numeral, as num / 10^exp in lowest form
NumeralValue(tok) ==
    LET b == Unsigned(tok)
        ds == SelectSeq(b, LAMBDA c : c # ".")
        places == IF \E i \in 1..Len(b) : b[i] = "."
                  THEN Len(b) - (CHOOSE i \in 1..Len(b) : b[i] = ".")
                  ELSE 0
        n == (IF Head(tok) = "-" THEN 0 - 1 ELSE 1) * DigitSum(ds)
        k == CHOOSE e \in 0..places :
               /\ n % Pow10(places - e) = 0
               /\ \A e2 \in 0..places : n % Pow10(places - e2) = 0 => e <= e2
    IN  IF n = 0 THEN [num |-> 0, exp |-> 0]
        ELSE [num |-> n \div Pow10(places - k), exp |-> k]

\* the numbers a separator text holds, in the order they stand in it
EmbeddedNumbers(s) ==
    IF s = <<>> THEN <<>>
    ELSE LET toks == Tokens(s[1]) IN
         [i \in 1..Len(toks) |-> NumeralValue(toks[i])]

OnlyNumerals(s) ==
    s # <<>> /\ \A i \in 1..Len(Tokens(s[1])) : IsNumeral(Tokens(s[1])[i])

HasDigit(s) == s # <<>> /\ \E i \in 1..Len(s[1]) : s[1][i] \in Digits

IsFloat(v) == v.num \in Int /\ v.exp \in Nat

NamedCsv(filename) ==
    /\ Len(filename) >= 4
    /\ filename[Len(filename) - 3] = "."
    /\ filename[Len(filename) - 2] = "c"
    /\ filename[Len(filename) - 1] = "s"
    /\ filename[Len(filename)] = "v"

\* C1: detect_separators returns exactly the values sorted[i+1] of the
\* indices i whose gap sorted[i+1] - sorted[i] exceeds the threshold, one per
\* index, in ascending order.
C1_ExactBlockStarts ==
    dstep \in {"detected", "both"} =>
        /\ gaps = BlockStarts(times, gap_threshold)
        /\ \A k \in 1..(Len(gaps) - 1) : gaps[k] <= gaps[k + 1]

C1_Witness ==
    /\ dstep = "detected"
    /\ times = <<4, 0, 2>>
    /\ gap_threshold = 1
    /\ gaps = <<2, 4>>

C3_OrderInvariant ==
    dstep = "both" =>
        /\ gaps_shuffled = gaps
        /\ gaps = detect_separators(Ascending(times), gap_threshold)

C3_Witness ==
    /\ dstep = "both"
    /\ times = <<4, 0, 4>>
    /\ shuffled = <<0, 4, 4>>
    /\ gaps_shuffled = <<4>>

\* C9: _parse_separators always returns a sequence of floats; it is empty
\* for a missing or empty string and exactly when the string holds no digit;
\* for numerals (signed, decimal) set apart by commas, spaces, '|' or other
\* separator characters it returns their values in order of appearance.
C9_ParsesEmbeddedNumbers ==
    pstep = "parsed" =>
        /\ \A i \in 1..Len(nums) : IsFloat(nums[i])
        /\ (nums = <<>>) <=> ~HasDigit(text)
        /\ OnlyNumerals(text) => nums = EmbeddedNumbers(text)

C9_Witness ==
    /\ pstep = "parsed"
    /\ text = <<<<"-", "7", "|", "0">>>>
    /\ nums = <<[num |-> 0 - 7, exp |-> 0], [num |-> 0, exp |-> 0]>>

\* C4 as stated: whenever the caller supplies separator text, the boundaries
\* drawn are the parsed numbers verbatim and the detector is not invoked.
C4_SuppliedTextIsDrawn ==
    \A r \in Reqs :
        LET f == frame[r] IN
        (/\ f.kind = "graph"
         /\ f.parse_arg # <<>>
         /\ f.parse_arg[1] # <<>>
         /\ f.parse_arg[1][1] # <<>>)
        => (f.xs = f.parsed /\ f.detect_arg = <<>>)

\* C4 as amended: when the separator text holds at least one number, the
\* boundaries drawn are those numbers in the order found and the detector is
\* not invoked; when it holds none (absent, empty or without a number) the
\* detector is invoked and its result is drawn; one source, never both.
C4_ManualElseDetected ==
    \A r \in Reqs :
        LET f == frame[r] IN
        (f.kind = "graph" /\ f.parse_arg # <<>>) =>
            LET expected == EmbeddedNumbers(f.parse_arg[1]) IN
            IF expected # <<>>
            THEN /\ f.xs = expected
                 /\ f.source = "manual"
                 /\ f.detect_arg = <<>>
            ELSE /\ f.source = "auto"
                 /\ f.detect_arg # <<>>
                 /\ f.xs = BlockStarts(f.time, f.detect_arg[1])

C4_Witness ==
    \E r \in Reqs :
        /\ frame[r].kind = "graph"
        /\ frame[r].status = 200
        /\ frame[r].parse_arg = <<<<<<"7", ",", "0">>>>>>
        /\ frame[r].xs = <<[num |-> 7, exp |-> 0], [num |-> 0, exp |-> 0]>>
        /\ frame[r].time = <<0, 0, 30>>

\* C5: once a request has finished, in success or in failure, no temporary
\* file it created still exists.
C5_TempFilesDeleted ==
    \A r \in Reqs :
        pc[r] = "done" => \A n \in files : creator[n] # r

\* C6: the graph endpoint answers 400 for a name not ending in .csv (before
\* the contents are read) and for a CSV without 'time' or 'flux', 500 with
\* the underlying message for any other failure, and the PNG only when
\* nothing failed; a 400 raised in the handler stays a 400.
C6_GraphOutcomeClassified ==
    \A r \in Reqs :
        LET f == frame[r]
            badname == ~NamedCsv(f.filename)
            nocols == f.loaded /\ ~({"time", "flux"} \subseteq f.columns)
        IN  f.kind = "graph" =>
            /\ f.status \in {200, 400, 500}
            /\ badname => (f.status = 400 /\ ~f.read)
            /\ (~badname /\ nocols) => f.status = 400
            /\ (~badname /\ ~nocols /\ f.error # "") =>
                  /\ f.status = 500
                  /\ f.detail = <<"Error al procesar el CSV: ", f.error>>
            /\ (f.status = 200) <=> (~badname /\ ~nocols /\ f.error = "")
            /\ (f.status = 200) => (f.background /\ f.tmp_path # 0)

C6_Witness ==
    \E r, q \in Reqs :
        /\ frame[r].kind = "graph" /\ frame[r].status = 400 /\ frame[r].loaded
        /\ frame[q].kind = "graph" /\ frame[q].status = 500
        /\ frame[q].error = "savefig"

C8_ThresholdPositive ==
    \A r \in Reqs :
        frame[r].detect_arg # <<>> => frame[r].detect_arg[1] > 0

\* C10: requests write no process-wide state (the plotting library's style
\* and figure registry included), and no request deletes a temporary file
\* that another request created.
C10_NoSharedWrites ==
    /\ rc_style = "default"
    /\ figures = {}
    /\ ~foreign

=============================================================================
